---- MODULE Spec2Model ----
(***************************************************************************)
(* Model of tlb_sim.py: a set-associative TLB with per-set LRU             *)
(* (SetAssociativeTLB), the locality-biased trace generator                *)
(* (generate_trace) and the simulation driver (run_tlb_sim).               *)
(*                                                                         *)
(* Two specifications share the operators that model the code:             *)
(*   Spec     one TLB object (and a second one of the same sets and at     *)
(*            least as many ways, stepped side by side) driven by          *)
(*            arbitrary access(vpn) calls;                                 *)
(*   SpecRun  repeated invocations of run_tlb_sim, each constructing a     *)
(*            TLB, generating its trace from the shared pseudo-random      *)
(*            stream and making one pass over it.                          *)
(* Assertions are modelled as enabled (the interpreter's default mode).    *)
(***************************************************************************)
EXTENDS Integers, Sequences, FiniteSets, TLC

VARIABLES
    cfg,          \* Spec: arguments of the constructor calls
    tlb,          \* the TLB object (NoTLB before construction, ConfigError)
    wide,         \* Spec: the TLB of the same sets and ways2 >= ways
    accessed,     \* Spec: the VPNs passed to access so far, in order
    outcome,      \* Spec: what tlb.access returned for each of them
    outcomeWide,  \* Spec: what wide.access returned for each of them
    params,       \* SpecRun: arguments of the run_tlb_sim invocation
    pc,           \* SpecRun: position inside run_tlb_sim
    rng,          \* SpecRun: state of the module-level generator of random
    current,      \* SpecRun: generate_trace's locality center
    refs,         \* SpecRun: the trace built by generate_trace
    i,            \* SpecRun: number of trace elements consumed by the pass
    hits,         \* SpecRun: run_tlb_sim's hits counter
    total_time,   \* SpecRun: run_tlb_sim's total_time accumulator
    result,       \* SpecRun: the value run_tlb_sim returned (NoResult if none)
    memo,         \* SpecRun: trace and Result of the first invocation
    par           \* SpecPar: the frame of each concurrent generate_trace

vars == <<cfg, tlb, wide, accessed, outcome, outcomeWide, params, pc, rng,
          current, refs, i, hits, total_time, result, memo, par>>

tlbVars == <<cfg, tlb, wide, accessed, outcome, outcomeWide>>
runVars == <<params, pc, rng, current, refs, i, hits, total_time, result,
             memo, par>>

-----------------------------------------------------------------------------
(* Bounds of the model *)

MaxVPN == 1          \* access is called with the VPNs 0..MaxVPN and 5, 7
MaxWays == 3         \* largest associativity constructed
MaxAccesses == 5     \* longest sequence of access calls explored

MaxN == 3            \* largest n_accesses passed to run_tlb_sim
MaxSeed == 1         \* run_tlb_sim is invoked with the seeds 0..MaxSeed

ScenarioVPNs == {5, 7}
VPNs == (0..MaxVPN) \cup ScenarioVPNs
SetsChoices == {-1, 0, 1, 2, 3, 4}
WaysChoices == 0..MaxWays

-----------------------------------------------------------------------------
(* SetAssociativeTLB *)

NoTLB == [status |-> "none"]
ConfigError == [status |-> "ConfigError"]

\* a & b for non-negative integers
RECURSIVE BitAnd(_, _)
BitAnd(a, b) ==
    IF a = 0 \/ b = 0 THEN 0
    ELSE (a % 2) * (b % 2) + 2 * BitAnd(a \div 2, b \div 2)

\* assert sets > 0 and ways > 0
PositiveConfig(s, w) == s > 0 /\ w > 0

\* mutant of MaskCheck: the assertion on the mask is missing
MaskCheckMissing(s) == TRUE

\* assert (sets & self.mask) == 0
MaskCheck(s) == BitAnd(s, s - 1) = 0

\* mutant of NewBuckets: every bucket starts with a zero tag, as valid
NewBucketsPrefilled(s) == [b \in 0..(s - 1) |-> <<0>>]

\* [deque() for _ in range(sets)]
NewBuckets(s) == [b \in 0..(s - 1) |-> <<>>]

\* SetAssociativeTLB(sets, ways): the object, or the failure of an assertion
NewTLB(s, w) ==
    IF ~PositiveConfig(s, w) THEN ConfigError
    ELSE IF ~MaskCheck(s) THEN ConfigError
    ELSE [status |-> "ok", sets |-> s, ways |-> w, buckets |-> NewBuckets(s),
          mask |-> s - 1]

IsTLB(t) == t.status = "ok"

\* mutant of Index: the mask is one bit too short
IndexHalfMask(t, vpn) == BitAnd(vpn, t.mask \div 2)

\* _index
Index(t, vpn) == BitAnd(vpn, t.mask)

\* the scan of the bucket: some tag equals vpn
Found(bucket, vpn) == \E k \in 1..Len(bucket) : bucket[k] = vpn

\* deque.remove: drops the first occurrence
RECURSIVE Remove(_, _)
Remove(bucket, tag) ==
    IF bucket = <<>> THEN <<>>
    ELSE IF Head(bucket) = tag THEN Tail(bucket)
    ELSE <<Head(bucket)>> \o Remove(Tail(bucket), tag)

\* mutant of Pop: popleft instead of pop, the MRU entry is dropped
PopMRU(bucket) == Tail(bucket)

\* deque.pop: drops the rightmost element
Pop(bucket) == SubSeq(bucket, 1, Len(bucket) - 1)

\* mutant of HitBucket: the tag is pushed to the front without being removed
HitBucketNoRemove(bucket, vpn) == <<vpn>> \o bucket

\* the hit branch of access: remove the tag, appendleft it
HitBucket(bucket, vpn) == <<vpn>> \o Remove(bucket, vpn)

\* mutant of MissBucket: nothing is ever evicted
MissBucketNoEvict(bucket, w, vpn) == <<vpn>> \o bucket

\* mutant of MissBucket: len(bucket) > ways, the eviction comes one entry late
MissBucketOffByOne(bucket, w, vpn) ==
    <<vpn>> \o (IF Len(bucket) > w THEN Pop(bucket) ELSE bucket)

\* mutant of MissBucket: a full bucket is cleared instead of popped
MissBucketFlush(bucket, w, vpn) ==
    <<vpn>> \o (IF Len(bucket) >= w THEN <<>> ELSE bucket)

\* mutant of MissBucket: len(bucket) >= ways - 1, the eviction comes one entry early
MissBucketEarly(bucket, w, vpn) ==
    <<vpn>> \o (IF Len(bucket) >= w - 1 THEN Pop(bucket) ELSE bucket)

\* the miss branch of access: pop when len(bucket) >= ways, appendleft vpn
MissBucket(bucket, w, vpn) ==
    <<vpn>> \o (IF Len(bucket) >= w THEN Pop(bucket) ELSE bucket)

\* the value access returns
AccessHit(t, vpn) == Found(t.buckets[Index(t, vpn)], vpn)

\* the TLB after access(vpn)
AccessTLB(t, vpn) ==
    LET idx == Index(t, vpn)
        bucket == t.buckets[idx]
    IN  [t EXCEPT !.buckets[idx] =
            IF Found(bucket, vpn) THEN HitBucket(bucket, vpn)
            ELSE MissBucket(bucket, t.ways, vpn)]

-----------------------------------------------------------------------------
(* Spec: a TLB driven by arbitrary access calls *)

NoParams == [status |-> "none"]
NoResult == [status |-> "none"]
NoMemo == [status |-> "none"]

\* the two threads of a parallel sweep
Threads == {"a", "b"}

\* no concurrent call is running
NoPar == [t \in Threads |-> [pc |-> "none", seed |-> 0, current |-> 0, refs |-> <<>>]]

IdleRun ==
    /\ par = NoPar
    /\ params = NoParams
    /\ pc = "idle"
    /\ rng = 0
    /\ current = 0
    /\ refs = <<>>
    /\ i = 0
    /\ hits = 0
    /\ total_time = 0
    /\ result = NoResult
    /\ memo = NoMemo

Init ==
    /\ cfg \in {c \in [sets : SetsChoices, ways : WaysChoices, ways2 : WaysChoices] :
                   c.ways2 >= c.ways}
    /\ tlb = NoTLB
    /\ wide = NoTLB
    /\ accessed = <<>>
    /\ outcome = <<>>
    /\ outcomeWide = <<>>
    /\ IdleRun

\* tlb = SetAssociativeTLB(sets, ways); wide = SetAssociativeTLB(sets, ways2)
Construct ==
    /\ tlb = NoTLB
    /\ tlb' = NewTLB(cfg.sets, cfg.ways)
    /\ wide' = NewTLB(cfg.sets, cfg.ways2)
    /\ UNCHANGED <<cfg, accessed, outcome, outcomeWide>>
    /\ UNCHANGED runVars

\* tlb.access(vpn) and wide.access(vpn)
Access(vpn) ==
    /\ IsTLB(tlb)
    /\ IsTLB(wide)
    /\ Len(accessed) < MaxAccesses
    /\ accessed' = Append(accessed, vpn)
    /\ outcome' = Append(outcome, AccessHit(tlb, vpn))
    /\ outcomeWide' = Append(outcomeWide, AccessHit(wide, vpn))
    /\ tlb' = AccessTLB(tlb, vpn)
    /\ wide' = AccessTLB(wide, vpn)
    /\ UNCHANGED cfg
    /\ UNCHANGED runVars

Next ==
    \/ Construct
    \/ \E vpn \in VPNs : Access(vpn)

Spec == Init /\ [][Next]_vars

-----------------------------------------------------------------------------
(* The module-level generator of random: a deterministic stream, a function *)
(* of the state that random.seed sets.  It is abstracted as a congruential  *)
(* generator of full period; a draw reads the state and advances it.        *)

RngMod == 16
RngMul == 5
RngInc == 3

\* random.seed(seed): the state is a function of the seed alone
RngSeed(seed) == (7 * seed + 2) % RngMod

\* the state after one draw
RngNext(r) == (RngMul * r + RngInc) % RngMod

\* random.random(), in units of 1/RngMod: a fraction in [0, 1)
Random(r) == r

\* random.randrange(n) for n > 0: an integer in [0, n)
RandRange(r, n) == (r * n) \div RngMod

\* random.randint(a, b) for a <= b: an integer in [a, b]
RandInt(r, a, b) == a + RandRange(r, b - a + 1)

-----------------------------------------------------------------------------
(* generate_trace *)

\* mutant of Reseed: the call of random.seed is missing
ReseedMissing(r, seed) == r

\* random.seed(seed) at entry
Reseed(r, seed) == RngSeed(seed)

\* mutant of TraceComplete: the loop runs once more than n_accesses
TraceCompleteOffByOne(trace, n) == Len(trace) >= n + 1

\* for _ in range(n_accesses): the loop is over
TraceComplete(trace, n) == Len(trace) >= n

\* random.random() < locality_prob, locality_prob in units of 1/RngMod
LocalityBranch(r, p) == Random(r) < p.locality_prob

\* -locality_window // 2 and locality_window // 2
DeltaLow(p) == (-p.locality_window) \div 2
DeltaHigh(p) == p.locality_window \div 2

\* mutant of Wrap: the modulo is missing
WrapMissing(c, delta, p) == c + delta

\* vpn = (current + delta) % vpages
Wrap(c, delta, p) == (c + delta) % p.vpages

\* mutant of GenIteration: the locality branch moves the center as well
GenIterationDrift(r, c, p) ==
    LET r1 == RngNext(r)
        r2 == RngNext(r1)
        r3 == RngNext(r2)
    IN  IF LocalityBranch(r, p)
        THEN IF DeltaLow(p) > DeltaHigh(p)
             THEN [error |-> TRUE, rng |-> r1]
             ELSE LET delta == RandInt(r1, DeltaLow(p), DeltaHigh(p))
                      vpn == Wrap(c, delta, p)
                  IN  IF p.page_size <= 0
                      THEN [error |-> TRUE, rng |-> r2]
                      ELSE [error |-> FALSE, rng |-> r3, current |-> vpn,
                            ref |-> <<vpn, RandRange(r2, p.page_size)>>]
        ELSE LET vpn == RandRange(r1, p.vpages)
             IN  IF p.page_size <= 0
                 THEN [error |-> TRUE, rng |-> r2]
                 ELSE [error |-> FALSE, rng |-> r3, current |-> vpn,
                       ref |-> <<vpn, RandRange(r2, p.page_size)>>]

\* one iteration of the loop from generator state r and center c:
\* the state of the generator after it, the center, the pair appended,
\* or a ValueError of randint / randrange
GenIteration(r, c, p) ==
    LET r1 == RngNext(r)
        r2 == RngNext(r1)
        r3 == RngNext(r2)
    IN  IF LocalityBranch(r, p)
        THEN IF DeltaLow(p) > DeltaHigh(p)
             THEN [error |-> TRUE, rng |-> r1]
             ELSE LET delta == RandInt(r1, DeltaLow(p), DeltaHigh(p))
                      vpn == Wrap(c, delta, p)
                  IN  IF p.page_size <= 0
                      THEN [error |-> TRUE, rng |-> r2]
                      ELSE [error |-> FALSE, rng |-> r3, current |-> c,
                            ref |-> <<vpn, RandRange(r2, p.page_size)>>]
        ELSE LET vpn == RandRange(r1, p.vpages)
             IN  IF p.page_size <= 0
                 THEN [error |-> TRUE, rng |-> r2]
                 ELSE [error |-> FALSE, rng |-> r3, current |-> vpn,
                       ref |-> <<vpn, RandRange(r2, p.page_size)>>]

-----------------------------------------------------------------------------
(* run_tlb_sim *)

\* mutant of MissCost: the hit cost is added on every access, the miss cost
\* on top of it
MissCostNoElse(p) == (p.t_tlb + p.t_mem) + (p.t_tlb + p.t_pagewalk + p.t_mem)

\* mutant of HitCost: the miss cost is charged on a hit as well
HitCostAsMiss(p) == p.t_tlb + p.t_pagewalk + p.t_mem

\* total_time += (t_tlb + t_mem)
HitCost(p) == p.t_tlb + p.t_mem

\* total_time += (t_tlb + t_pagewalk + t_mem)
MissCost(p) == p.t_tlb + p.t_pagewalk + p.t_mem

\* hits / accesses and total_time / accesses: the quotient of two integers
Ratio(n, d) == [num |-> n, den |-> d]

\* the dictionary run_tlb_sim returns
MakeResult(acc, h, t, p) ==
    [status |-> "ok", accesses |-> acc, hits |-> h, misses |-> acc - h,
     hit_rate |-> Ratio(h, acc), EMAT |-> Ratio(t, acc), params |-> p]

\* the arguments run_tlb_sim is invoked with: the valid ones ...
ValidParams ==
    [sets : {1, 2}, ways : {1, 2}, vpages : {2, 3}, page_size : {2},
     n_accesses : 1..MaxN, locality_prob : {0, 8, 16},
     locality_window : {1, 2, 3}, t_tlb : {1}, t_mem : {2},
     t_pagewalk : {-1, 0, 3}, seed : 0..MaxSeed]

\* ... and those with one argument outside its range
BaseParams ==
    [sets |-> 2, ways |-> 2, vpages |-> 3, page_size |-> 2, n_accesses |-> 2,
     locality_prob |-> 8, locality_window |-> 2, t_tlb |-> 1, t_mem |-> 2,
     t_pagewalk |-> 3, seed |-> 0]

OneInvalid(b) ==
    {[b EXCEPT !.sets = v] : v \in {-1, 0, 3}}
    \cup {[b EXCEPT !.ways = v] : v \in {-1, 0}}
    \cup {[b EXCEPT !.vpages = v] : v \in {-1, 0}}
    \cup {[b EXCEPT !.page_size = v] : v \in {-1, 0}}
    \cup {[b EXCEPT !.n_accesses = v] : v \in {-1, 0}}
    \cup {[b EXCEPT !.locality_prob = v] : v \in {-1, 17}}
    \cup {[b EXCEPT !.locality_window = v] : v \in {-2, -1, 0}}

InvalidParams ==
    UNION {OneInvalid([BaseParams EXCEPT !.seed = sd, !.locality_prob = lp]) :
              sd \in 0..MaxSeed, lp \in {0, 8, 16}}

ParamChoices == ValidParams \cup InvalidParams

InitRun ==
    /\ cfg = [sets |-> 0, ways |-> 0, ways2 |-> 0]
    /\ wide = NoTLB
    /\ accessed = <<>>
    /\ outcome = <<>>
    /\ outcomeWide = <<>>
    /\ params \in ParamChoices
    /\ rng \in 0..(RngMod - 1)
    /\ pc = "idle"
    /\ tlb = NoTLB
    /\ current = 0
    /\ refs = <<>>
    /\ i = 0
    /\ hits = 0
    /\ total_time = 0
    /\ result = NoResult
    /\ memo = NoMemo
    /\ par = NoPar

\* run_tlb_sim(**params) is entered: a fresh frame
Call ==
    /\ pc = "idle"
    /\ pc' = "construct"
    /\ tlb' = NoTLB
    /\ current' = 0
    /\ refs' = <<>>
    /\ i' = 0
    /\ hits' = 0
    /\ total_time' = 0
    /\ result' = NoResult
    /\ UNCHANGED <<params, rng, memo>>
    /\ UNCHANGED <<cfg, wide, accessed, outcome, outcomeWide, par>>

\* tlb = SetAssociativeTLB(sets=sets, ways=ways)
ConstructRun ==
    /\ pc = "construct"
    /\ tlb' = NewTLB(params.sets, params.ways)
    /\ pc' = IF IsTLB(tlb') THEN "seed" ELSE "error"
    /\ UNCHANGED <<params, rng, current, refs, i, hits, total_time, result, memo>>
    /\ UNCHANGED <<cfg, wide, accessed, outcome, outcomeWide, par>>

\* generate_trace: random.seed(seed); refs = []; current = randrange(vpages)
SeedTrace ==
    /\ pc = "seed"
    /\ refs' = <<>>
    /\ LET r0 == Reseed(rng, params.seed)
       IN  IF params.vpages <= 0
           THEN /\ rng' = r0
                /\ pc' = "error"
                /\ UNCHANGED current
           ELSE /\ current' = RandRange(r0, params.vpages)
                /\ rng' = RngNext(r0)
                /\ pc' = "gen"
    /\ UNCHANGED <<params, tlb, i, hits, total_time, result, memo>>
    /\ UNCHANGED <<cfg, wide, accessed, outcome, outcomeWide, par>>

\* generate_trace: one iteration of the loop
GenStep ==
    /\ pc = "gen"
    /\ ~TraceComplete(refs, params.n_accesses)
    /\ LET it == GenIteration(rng, current, params)
       IN  /\ rng' = it.rng
           /\ IF it.error
              THEN /\ pc' = "error"
                   /\ UNCHANGED <<current, refs>>
              ELSE /\ pc' = "gen"
                   /\ current' = it.current
                   /\ refs' = Append(refs, it.ref)
    /\ UNCHANGED <<params, tlb, i, hits, total_time, result, memo>>
    /\ UNCHANGED <<cfg, wide, accessed, outcome, outcomeWide, par>>

\* generate_trace returns; hits = 0; total_time = 0; accesses = len(trace)
GenDone ==
    /\ pc = "gen"
    /\ TraceComplete(refs, params.n_accesses)
    /\ hits' = 0
    /\ total_time' = 0
    /\ i' = 0
    /\ pc' = "pass"
    /\ UNCHANGED <<params, tlb, rng, current, refs, result, memo>>
    /\ UNCHANGED <<cfg, wide, accessed, outcome, outcomeWide, par>>

\* one iteration of the pass over the trace
PassStep ==
    /\ pc = "pass"
    /\ i < Len(refs)
    /\ LET vpn == refs[i + 1][1]
           hit == AccessHit(tlb, vpn)
       IN  /\ tlb' = AccessTLB(tlb, vpn)
           /\ hits' = IF hit THEN hits + 1 ELSE hits
           /\ total_time' = total_time +
                               (IF hit THEN HitCost(params) ELSE MissCost(params))
    /\ i' = i + 1
    /\ UNCHANGED <<params, pc, rng, current, refs, result, memo>>
    /\ UNCHANGED <<cfg, wide, accessed, outcome, outcomeWide, par>>

\* hit_rate = hits / accesses; emat = total_time / accesses; return {...}
Finish ==
    /\ pc = "pass"
    /\ i = Len(refs)
    /\ IF Len(refs) = 0
       THEN /\ pc' = "error"
            /\ UNCHANGED result
       ELSE /\ pc' = "done"
            /\ result' = MakeResult(Len(refs), hits, total_time, params)
    /\ UNCHANGED <<params, tlb, rng, current, refs, i, hits, total_time, memo>>
    /\ UNCHANGED <<cfg, wide, accessed, outcome, outcomeWide, par>>

\* the invocation is over; the first one's trace and Result are remembered
Return ==
    /\ pc \in {"done", "error"}
    /\ pc' = "idle"
    /\ memo' = IF memo = NoMemo
               THEN [status |-> "set", pc |-> pc, refs |-> refs, result |-> result]
               ELSE memo
    /\ UNCHANGED <<params, tlb, rng, current, refs, i, hits, total_time, result>>
    /\ UNCHANGED <<cfg, wide, accessed, outcome, outcomeWide, par>>

\* between invocations some other code draws from the shared generator
OtherDraw ==
    /\ pc = "idle"
    /\ rng' = RngNext(rng)
    /\ UNCHANGED <<params, pc, tlb, current, refs, i, hits, total_time, result, memo>>
    /\ UNCHANGED <<cfg, wide, accessed, outcome, outcomeWide, par>>

NextRun ==
    \/ Call
    \/ ConstructRun
    \/ SeedTrace
    \/ GenStep
    \/ GenDone
    \/ PassStep
    \/ Finish
    \/ Return
    \/ OtherDraw

SpecRun == InitRun /\ [][NextRun]_vars

-----------------------------------------------------------------------------
(* Properties of run_tlb_sim, checked under SpecRun *)

PowerOfTwo(s) == \E k \in 0..s : 2 ^ k = s

\* the configurations the constructor's contract admits
ValidConfig(s, w) == s > 0 /\ w > 0 /\ PowerOfTwo(s)

\* the bounds of total_time for a Result r
LowerTime(r) == r.accesses * (r.params.t_tlb + r.params.t_mem)
UpperTime(r) ==
    r.accesses * (r.params.t_tlb + r.params.t_pagewalk + r.params.t_mem)

(* C5  Hit/miss conservation: every Result satisfies                        *)
(* hits + misses = accesses, 0 <= hits <= accesses, misses >= 0, and        *)
(* accesses is the length of the trace, n_accesses; during the pass,        *)
(* after i steps hits <= i.                                                 *)
C5_Conservation ==
    /\ result.status = "ok" =>
          /\ result.hits + result.misses = result.accesses
          /\ 0 <= result.hits /\ result.hits <= result.accesses
          /\ result.misses >= 0
          /\ result.accesses = Len(refs)
          /\ result.accesses = params.n_accesses
          /\ result.hits = hits
    /\ pc = "pass" => (0 <= hits /\ hits <= i /\ i <= Len(refs))

\* a Result with both hits and misses
C5_Witness ==
    /\ pc = "done"
    /\ result.status = "ok"
    /\ result.hits >= 1
    /\ result.misses >= 2

(* C6 as stated, for the non-negative costs the menu admits: total_time     *)
(* lies between accesses*(t_tlb + t_mem) and                                *)
(* accesses*(t_tlb + t_pagewalk + t_mem), the lower bound reached exactly   *)
(* when every access hit and the upper bound exactly when every access      *)
(* missed.                                                                  *)
C6_EMATBoundsAsStated ==
    (result.status = "ok" /\ result.params.t_pagewalk >= 0) =>
        LET t == result.EMAT.num
        IN  /\ result.EMAT.den = result.accesses
            /\ LowerTime(result) <= t
            /\ t <= UpperTime(result)
            /\ (t = LowerTime(result)) <=> (result.hits = result.accesses)
            /\ (t = UpperTime(result)) <=> (result.hits = 0)

(* C6 amended: for t_pagewalk >= 0 every Result has                         *)
(* accesses*(t_tlb + t_mem) <= total_time                                   *)
(*                          <= accesses*(t_tlb + t_pagewalk + t_mem);       *)
(* the lower bound is reached exactly when every access hit or              *)
(* t_pagewalk = 0, the upper bound exactly when every access missed or      *)
(* t_pagewalk = 0.                                                          *)
C6_EMATBounds ==
    (result.status = "ok" /\ result.params.t_pagewalk >= 0) =>
        LET t == result.EMAT.num
        IN  /\ result.EMAT.den = result.accesses
            /\ t = total_time
            /\ LowerTime(result) <= t
            /\ t <= UpperTime(result)
            /\ (t = LowerTime(result)) <=>
                  (result.hits = result.accesses \/ result.params.t_pagewalk = 0)
            /\ (t = UpperTime(result)) <=>
                  (result.hits = 0 \/ result.params.t_pagewalk = 0)

\* a Result with hits and misses whose total_time is strictly between the bounds
C6_Witness ==
    /\ pc = "done"
    /\ result.status = "ok"
    /\ result.params.t_pagewalk > 0
    /\ result.hits >= 1
    /\ LowerTime(result) < result.EMAT.num
    /\ result.EMAT.num < UpperTime(result)

(* C7  Configuration errors: with sets <= 0, ways <= 0 or sets not a power  *)
(* of two the construction fails; no TLB object exists, no trace step is    *)
(* executed and no Result is produced.                                      *)
C7_ConfigErrors ==
    ~ValidConfig(params.sets, params.ways) =>
        /\ pc \in {"idle", "construct", "error"}
        /\ ~IsTLB(tlb)
        /\ pc = "error" => tlb = ConfigError
        /\ refs = <<>>
        /\ i = 0 /\ hits = 0 /\ total_time = 0
        /\ result = NoResult
        /\ memo.status = "set" => (memo.pc = "error" /\ memo.result = NoResult)

\* sets = 3: the construction has failed
C7_Witness ==
    /\ params.sets = 3
    /\ params.ways > 0
    /\ pc = "error"
    /\ tlb = ConfigError

(* C8  Determinism: a later invocation with the same arguments returns the  *)
(* same trace and the same Result as the first one, whatever the state of   *)
(* the generator at its entry.                                              *)
C8_Determinism ==
    memo.status = "set" =>
        /\ pc = "pass" => (memo.pc = "done" \/ Len(refs) = 0) /\ refs = memo.refs
        /\ pc = "done" =>
              /\ memo.pc = "done"
              /\ refs = memo.refs
              /\ result = memo.result
        /\ pc = "error" => memo.pc = "error" /\ result = memo.result

\* a second invocation has returned a Result over a trace of several accesses
C8_Witness ==
    /\ memo.status = "set"
    /\ memo.pc = "done"
    /\ pc = "done"
    /\ Len(refs) >= 2
    /\ result.hits >= 1

-----------------------------------------------------------------------------
(* Helpers of the properties *)

Range(seq) == {seq[k] : k \in 1..Len(seq)}

Take(seq, n) == SubSeq(seq, 1, IF n < Len(seq) THEN n ELSE Len(seq))

CountTrue(seq) == Cardinality({k \in 1..Len(seq) : seq[k]})

\* the accesses of h that fall into set idx of a TLB of s sets
SameSet(h, s, idx) == SelectSeq(h, LAMBDA v : BitAnd(v, s - 1) = idx)

\* the distinct VPNs of h, the most recently accessed first
RECURSIVE MRUOrder(_, _)
MRUOrder(h, seen) ==
    IF h = <<>> THEN <<>>
    ELSE LET v == h[Len(h)]
             rest == SubSeq(h, 1, Len(h) - 1)
         IN  IF v \in seen THEN MRUOrder(rest, seen)
             ELSE <<v>> \o MRUOrder(rest, seen \cup {v})

\* accessed[k] is the first access to that VPN
FirstTouch(k) == \A j \in 1..(k - 1) : accessed[j] # accessed[k]

\* the position of the last access before k that fell into the same set, or 0
PrevSameSet(k) ==
    LET before == {j \in 1..(k - 1) :
                      Index(tlb, accessed[j]) = Index(tlb, accessed[k])}
    IN  IF before = {} THEN 0
        ELSE CHOOSE j \in before : \A m \in before : m <= j

-----------------------------------------------------------------------------
(* C1  LRU correctness: after any sequence of access calls on a fresh TLB,  *)
(* set b holds exactly the min(ways, k) most recently accessed distinct     *)
(* VPNs among those with vpn & (sets-1) = b, the most recent first; with    *)
(* ways = 2 and distinct same-set accesses A, B, C, an access to A right    *)
(* after C is a miss and an access to B right after C is a hit.             *)
C1_LRUCorrectness ==
    IsTLB(tlb) =>
        /\ \A b \in 0..(tlb.sets - 1) :
              tlb.buckets[b] =
                  Take(MRUOrder(SameSet(accessed, tlb.sets, b), {}), tlb.ways)
        /\ ( /\ tlb.ways = 2
             /\ Len(accessed) >= 4
             /\ Cardinality({accessed[1], accessed[2], accessed[3]}) = 3
             /\ Cardinality({Index(tlb, accessed[k]) : k \in 1..3}) = 1 )
           => /\ ~outcome[1] /\ ~outcome[2] /\ ~outcome[3]
              /\ (accessed[4] = accessed[1] => ~outcome[4])
              /\ (accessed[4] = accessed[2] => outcome[4])

\* ways = 2, one set, accesses A, B, C, A: the last one misses, A was evicted
C1_Witness ==
    /\ IsTLB(tlb)
    /\ tlb.sets = 1
    /\ tlb.ways = 2
    /\ accessed = <<0, 1, 5, 0>>
    /\ outcome = <<FALSE, FALSE, FALSE, FALSE>>
    /\ tlb.buckets[0] = <<0, 5>>

(* C2  Set-count invariant: every bucket of a constructed TLB has between   *)
(* 0 and ways entries in every reachable state.                             *)
C2_SetCount ==
    /\ IsTLB(tlb) =>
          \A b \in 0..(tlb.sets - 1) : Len(tlb.buckets[b]) \in 0..tlb.ways
    /\ IsTLB(wide) =>
          \A b \in 0..(wide.sets - 1) : Len(wide.buckets[b]) \in 0..wide.ways

\* a full bucket that has seen more distinct VPNs than it has ways
C2_Witness ==
    /\ IsTLB(tlb)
    /\ \E b \in 0..(tlb.sets - 1) :
          /\ Len(tlb.buckets[b]) = tlb.ways
          /\ Cardinality(Range(SameSet(accessed, tlb.sets, b))) > tlb.ways

(* C3  No duplicates within a set: no VPN occurs twice in one bucket.       *)
C3_NoDuplicates ==
    IsTLB(tlb) =>
        \A b \in 0..(tlb.sets - 1) :
            \A j, k \in 1..Len(tlb.buckets[b]) :
                j # k => tlb.buckets[b][j] # tlb.buckets[b][k]

\* a hit on an entry that was not at the front of a bucket of several entries
C3_Witness ==
    /\ IsTLB(tlb)
    /\ Len(accessed) >= 3
    /\ outcome[Len(outcome)]
    /\ accessed[Len(accessed)] # accessed[Len(accessed) - 1]
    /\ Len(tlb.buckets[Index(tlb, accessed[Len(accessed)])]) >= 2

(* C4  Monotonic associativity: two TLBs of the same sets and ways          *)
(* w1 <= w2, stepped side by side over the same accesses, satisfy           *)
(* hits(w1) <= hits(w2) after every prefix.                                 *)
C4_MonotonicWays ==
    (IsTLB(tlb) /\ IsTLB(wide)) => CountTrue(outcome) <= CountTrue(outcomeWide)

\* the wider TLB has hit strictly more often
C4_Witness ==
    /\ IsTLB(tlb) /\ IsTLB(wide)
    /\ tlb.ways < wide.ways
    /\ CountTrue(outcome) >= 1
    /\ CountTrue(outcome) < CountTrue(outcomeWide)

(* C9  Cold start: the first access to a fresh TLB is a miss; the first     *)
(* access to a VPN not accessed before is a miss, so the misses are at      *)
(* least the number of distinct VPNs accessed and hits <= accesses - 1      *)
(* once there was an access.                                                *)
C9_ColdStart ==
    IsTLB(tlb) =>
        /\ Len(outcome) >= 1 => ~outcome[1]
        /\ \A k \in 1..Len(accessed) : FirstTouch(k) => ~outcome[k]
        /\ Len(outcome) - CountTrue(outcome) >= Cardinality(Range(accessed))
        /\ Len(accessed) >= 1 => CountTrue(outcome) <= Len(accessed) - 1

\* a repeated VPN hit, and a VPN touched for the first time after it missed
C9_Witness ==
    /\ IsTLB(tlb)
    /\ Len(accessed) >= 3
    /\ outcome[2]
    /\ FirstTouch(Len(accessed))
    /\ ~outcome[Len(accessed)]

(* C10  Direct-mapped single entry: with sets = 1 and ways = 1 the accesses *)
(* 5, 7, 5 return miss, miss, miss; with ways = 1 an access hits if and     *)
(* only if the immediately preceding access to the same set was to the same *)
(* VPN.                                                                     *)
C10_SingleEntry ==
    (IsTLB(tlb) /\ tlb.ways = 1) =>
        /\ (tlb.sets = 1 /\ Take(accessed, 3) = <<5, 7, 5>>)
              => Take(outcome, 3) = <<FALSE, FALSE, FALSE>>
        /\ \A k \in 1..Len(accessed) :
              outcome[k] <=> ( /\ PrevSameSet(k) # 0
                               /\ accessed[PrevSameSet(k)] = accessed[k] )

\* the scenario itself: 5, 7, 5 on one set of one way
C10_Witness ==
    /\ IsTLB(tlb)
    /\ tlb.sets = 1
    /\ tlb.ways = 1
    /\ accessed = <<5, 7, 5>>
    /\ outcome = <<FALSE, FALSE, FALSE>>

-----------------------------------------------------------------------------
(* Effects of one access, checked under Spec *)

\* this step is a call of access on tlb
AccessStep == IsTLB(tlb) /\ Len(accessed') = Len(accessed) + 1

\* the VPN the step accesses, its set, and that set before and after
StepVPN == accessed'[Len(accessed')]
StepSet == BitAnd(StepVPN, tlb.sets - 1)
OldBucket == tlb.buckets[StepSet]
NewBucket == tlb'.buckets[StepSet]
StepReturned == outcome'[Len(outcome')]

\* every set but the accessed one, and the configuration, are left alone
OtherSetsUnchanged ==
    /\ tlb'.sets = tlb.sets /\ tlb'.ways = tlb.ways /\ tlb'.mask = tlb.mask
    /\ \A b \in 0..(tlb.sets - 1) : b # StepSet => tlb'.buckets[b] = tlb.buckets[b]

\* the distinct VPNs accessed so far that fall into set b
Touched(b) == Range(SameSet(accessed, tlb.sets, b))

(* C15  Effect of a hit: when access(vpn) finds vpn in its set it returns   *)
(* true, vpn becomes the front entry, the other entries keep their relative *)
(* order, length and membership of the set are unchanged, and every other   *)
(* set is left unchanged.                                                   *)
C15_HitEffect ==
    [][ (AccessStep /\ StepVPN \in Range(OldBucket)) =>
            /\ StepReturned
            /\ Head(NewBucket) = StepVPN
            /\ Tail(NewBucket) = SelectSeq(OldBucket, LAMBDA v : v # StepVPN)
            /\ Len(NewBucket) = Len(OldBucket)
            /\ Range(NewBucket) = Range(OldBucket)
            /\ OtherSetsUnchanged ]_vars

\* a hit on the last of three entries moved it to the front
C15_Witness ==
    /\ IsTLB(tlb)
    /\ tlb.sets = 1
    /\ tlb.ways = 3
    /\ accessed = <<0, 1, 5, 0>>
    /\ outcome = <<FALSE, FALSE, FALSE, TRUE>>
    /\ tlb.buckets[0] = <<0, 5, 1>>

(* C16  Effect of a miss: when access(vpn) does not find vpn it returns     *)
(* false and vpn becomes the front entry; an entry is evicted if and only   *)
(* if the set held exactly ways entries, the evicted entry is the back one  *)
(* and never vpn, the remaining entries keep their order behind vpn, and    *)
(* every other set is unchanged.  Hence access returns true exactly when    *)
(* vpn was resident, and after every access vpn is at the front of its set. *)
C16_MissEffect ==
    [][ AccessStep =>
            /\ StepReturned <=> (StepVPN \in Range(OldBucket))
            /\ Head(NewBucket) = StepVPN
            /\ (StepVPN \notin Range(OldBucket)) =>
                  /\ ~StepReturned
                  /\ (Range(OldBucket) \ Range(NewBucket) # {})
                        <=> (Len(OldBucket) = tlb.ways)
                  /\ Len(OldBucket) = tlb.ways =>
                        /\ Tail(NewBucket) = SubSeq(OldBucket, 1, Len(OldBucket) - 1)
                        /\ Range(OldBucket) \ Range(NewBucket)
                              = {OldBucket[Len(OldBucket)]}
                        /\ OldBucket[Len(OldBucket)] # StepVPN
                  /\ Len(OldBucket) # tlb.ways => Tail(NewBucket) = OldBucket
                  /\ OtherSetsUnchanged ]_vars

\* a miss on a full set of two ways evicted its back entry; set 0 was left alone
C16_Witness ==
    /\ IsTLB(tlb)
    /\ tlb.sets = 2
    /\ tlb.ways = 2
    /\ accessed = <<0, 1, 5, 7>>
    /\ outcome = <<FALSE, FALSE, FALSE, FALSE>>
    /\ tlb.buckets[0] = <<0>>
    /\ tlb.buckets[1] = <<7, 5>>

(* C19  Index invariant: every entry stored in bucket b satisfies           *)
(* entry & (sets-1) = b = entry mod sets; a VPN is resident in at most one  *)
(* bucket, the computed index is within [0, sets), and the number of        *)
(* resident entries never exceeds sets*ways.                                *)
RECURSIVE SumLen(_, _)
SumLen(buckets, n) ==
    IF n = 0 THEN 0 ELSE Len(buckets[n - 1]) + SumLen(buckets, n - 1)

C19_IndexInvariant ==
    IsTLB(tlb) =>
        /\ \A b \in 0..(tlb.sets - 1) :
              \A k \in 1..Len(tlb.buckets[b]) :
                  /\ BitAnd(tlb.buckets[b][k], tlb.sets - 1) = b
                  /\ tlb.buckets[b][k] % tlb.sets = b
        /\ \A v \in VPNs :
              /\ Cardinality({b \in 0..(tlb.sets - 1) :
                                 v \in Range(tlb.buckets[b])}) <= 1
              /\ Index(tlb, v) \in 0..(tlb.sets - 1)
              /\ Index(tlb, v) = v % tlb.sets
        /\ SumLen(tlb.buckets, tlb.sets) <= tlb.sets * tlb.ways

\* four sets, three of them in use, one holding two entries
C19_Witness ==
    /\ IsTLB(tlb)
    /\ tlb.sets = 4
    /\ Len(tlb.buckets[0]) = 1
    /\ Len(tlb.buckets[1]) = 2
    /\ Len(tlb.buckets[3]) = 1

\* no set has seen more distinct VPNs than it has ways
AllFit == \A b \in 0..(tlb.sets - 1) : Cardinality(Touched(b)) <= tlb.ways

(* C20  No capacity misses: a bucket's length never decreases across an     *)
(* access, and if for every set the distinct VPNs mapping to it are at most *)
(* ways, nothing is evicted and the misses equal the number of distinct     *)
(* VPNs accessed (every repeated access hits).                              *)
C20_NoCapacityMisses ==
    /\ [][ AccessStep =>
              \A b \in 0..(tlb.sets - 1) :
                  Len(tlb'.buckets[b]) >= Len(tlb.buckets[b]) ]_vars
    /\ [] ( (IsTLB(tlb) /\ AllFit) =>
              /\ \A b \in 0..(tlb.sets - 1) : Range(tlb.buckets[b]) = Touched(b)
              /\ Len(outcome) - CountTrue(outcome) = Cardinality(Range(accessed))
              /\ \A k \in 1..Len(accessed) : outcome[k] <=> ~FirstTouch(k) )

\* five accesses to three VPNs that fit: three misses, two hits, a full set
C20_Witness ==
    /\ IsTLB(tlb)
    /\ AllFit
    /\ Len(accessed) = 5
    /\ Cardinality(Range(accessed)) = 3
    /\ CountTrue(outcome) = 2
    /\ \E b \in 0..(tlb.sets - 1) : Len(tlb.buckets[b]) = tlb.ways

-----------------------------------------------------------------------------
(* Steps of run_tlb_sim and generate_trace, checked under SpecRun *)

\* this step is one iteration of the pass over the trace
PassIteration == pc = "pass" /\ i' = i + 1

\* the VPN that iteration accesses and whether it is resident before the step
PassVPN == refs[i + 1][1]
PassResident == PassVPN \in Range(tlb.buckets[BitAnd(PassVPN, tlb.sets - 1)])

(* C17  Timing accumulation: after every prefix of i trace steps            *)
(* total_time = hits*(t_tlb + t_mem) + (i - hits)*(t_tlb + t_pagewalk +     *)
(* t_mem); each step adds one of the two costs according to what access     *)
(* returned, hits changes only on a hit and by 1, and the trace is consumed *)
(* once, in order, one access per element.                                  *)
C17_TimingAccumulation ==
    /\ [] ( pc \in {"pass", "done"} =>
              /\ total_time =
                    hits * (params.t_tlb + params.t_mem)
                    + (i - hits) * (params.t_tlb + params.t_pagewalk + params.t_mem)
              /\ i <= Len(refs)
              /\ pc = "done" => i = Len(refs) )
    /\ [][ pc = "pass" =>
              /\ pc' = "pass" => i' = i + 1
              /\ pc' # "pass" => (i' = i /\ i = Len(refs))
              /\ refs' = refs ]_vars
    /\ [][ PassIteration =>
              /\ Head(tlb'.buckets[BitAnd(PassVPN, tlb.sets - 1)]) = PassVPN
              /\ PassResident =>
                    /\ hits' = hits + 1
                    /\ total_time' = total_time + params.t_tlb + params.t_mem
              /\ ~PassResident =>
                    /\ hits' = hits
                    /\ total_time' = total_time + params.t_tlb
                                        + params.t_pagewalk + params.t_mem ]_vars

\* in the middle of a pass, after one hit and one miss
C17_Witness ==
    /\ pc = "pass"
    /\ i = 2
    /\ hits = 1
    /\ Len(refs) = 3
    /\ params.t_pagewalk = 3
    /\ total_time = 9

-----------------------------------------------------------------------------
(* The trace built by generate_trace, checked under SpecRun *)

\* the inputs under which generate_trace is required to build a trace
TracePre ==
    /\ params.vpages >= 1
    /\ params.page_size >= 1
    /\ params.n_accesses >= 0
    /\ params.locality_window >= 1

\* a pair (vpn, offset) inside the address space
WellFormedRef(ref) ==
    /\ ref[1] \in 0..(params.vpages - 1)
    /\ ref[2] \in 0..(params.page_size - 1)

\* C11 (trace well-formedness): for vpages >= 1, page_size >= 1,
\* n_accesses >= 0, a positive locality_window and any locality_prob,
\* generate_trace raises nothing and returns exactly n_accesses pairs, each
\* with 0 <= vpn < vpages and 0 <= offset < page_size; the locality center
\* stays in [0, vpages) as well.
C11_TraceWellFormed ==
    /\ [](TracePre =>
            /\ \A k \in 1..Len(refs) : WellFormedRef(refs[k])
            /\ Len(refs) <= params.n_accesses
            /\ pc \in {"gen", "pass", "done"} =>
                   current \in 0..(params.vpages - 1)
            /\ pc \in {"pass", "done"} => Len(refs) = params.n_accesses)
    /\ [][TracePre /\ pc \in {"seed", "gen"} => pc' \in {"gen", "pass"}]_vars

\* a returned trace in which the center is page 0 and a negative delta
\* wrapped to the last page
C11_Witness ==
    /\ pc = "pass"
    /\ params.vpages = 3
    /\ params.locality_window = 2
    /\ params.locality_prob = 16
    /\ current = 0
    /\ Len(refs) = 3
    /\ \E k \in 1..Len(refs) : refs[k][1] = 2

-----------------------------------------------------------------------------
(* The branches of one generate_trace iteration, checked under SpecRun *)

\* an iteration of the loop that appended a pair
GenAppend == pc = "gen" /\ Len(refs') = Len(refs) + 1

\* the VPN that iteration emitted
EmittedVPN == refs'[Len(refs')][1]

\* the iteration took the locality branch
TookLocality == Random(rng) < params.locality_prob

\* C12 (locality delta range), as stated: for a positive locality_window the
\* locality branch emits (center + delta) mod vpages with delta in the
\* symmetric range [-floor(window/2), floor(window/2)]; with window = 1 it
\* emits exactly the center.
C12_SymmetricDelta ==
    [][GenAppend /\ TookLocality /\ params.locality_window >= 1 =>
          LET half == params.locality_window \div 2
          IN  /\ \E d \in (-half)..half :
                     EmittedVPN = (current + d) % params.vpages
              /\ params.locality_window = 1 => EmittedVPN = current]_vars

\* the generator state after n draws
RECURSIVE Draws(_, _)
Draws(r, n) == IF n = 0 THEN r ELSE Draws(RngNext(r), n - 1)

\* the generator state at the start of iteration k of this invocation: one
\* draw for the initial center, three for each earlier iteration
IterStart(k) == Draws(RngSeed(params.seed), 1 + 3 * (k - 1))

\* iteration k took the jump branch
JumpStep(k) == ~(Random(IterStart(k)) < params.locality_prob)

\* the center after the first n iterations: the VPN of the latest jump among
\* them, or the initial center
CenterAfter(n) ==
    LET jumps == {k \in 1..n : JumpStep(k)}
    IN  IF jumps = {}
        THEN RandRange(RngSeed(params.seed), params.vpages)
        ELSE refs[CHOOSE k \in jumps : \A j \in jumps : j <= k][1]

\* the deltas the locality branch can draw for window w
WindowDeltas(w) == (-((w + 1) \div 2))..(w \div 2)

\* C18 (locality center update): a locality-branch step leaves the center
\* unchanged and a jump-branch step sets it to the emitted VPN; hence the
\* center is the VPN of the latest jump (or the initial center) and every
\* locality-branch VPN is (c + delta) mod vpages for that c and a delta of the
\* window, however many locality steps came in between. The window is taken
\* as the interval the draw covers; its exact ends are the matter of C12.
C18_CenterUpdate ==
    /\ [][GenAppend =>
            IF TookLocality
            THEN /\ current' = current
                 /\ \E d \in WindowDeltas(params.locality_window) :
                        EmittedVPN = (current + d) % params.vpages
            ELSE current' = EmittedVPN]_vars
    /\ [](pc \in {"gen", "pass", "done"} =>
            /\ current = CenterAfter(Len(refs))
            /\ \A k \in 1..Len(refs) :
                   ~JumpStep(k) =>
                       \E d \in WindowDeltas(params.locality_window) :
                           refs[k][1] = (CenterAfter(k - 1) + d) % params.vpages)

\* a locality step, a jump, and a locality step that emitted a page other
\* than the one jumped to: the center is still the page of the jump
C18_Witness ==
    /\ pc = "pass"
    /\ params.vpages = 3
    /\ params.locality_prob = 8
    /\ Len(refs) = 3
    /\ ~JumpStep(1) /\ JumpStep(2) /\ ~JumpStep(3)
    /\ refs[3][1] # refs[2][1]
    /\ current = refs[2][1]

-----------------------------------------------------------------------------
(* Parameters outside their domain, checked under SpecRun *)

\* n_accesses, vpages or page_size non-positive, locality_prob outside
\* [0, 1], or locality_window non-positive
InvalidParameter ==
    \/ params.n_accesses <= 0
    \/ params.vpages <= 0
    \/ params.page_size <= 0
    \/ params.locality_prob < 0
    \/ params.locality_prob > RngMod
    \/ params.locality_window <= 0

\* C13 (invalid parameters fail loudly), as stated: with an invalid
\* parameter generate_trace never returns a trace and run_tlb_sim never
\* returns a Result; the call ends in an error.
C13_FailsLoudly ==
    InvalidParameter => pc \notin {"pass", "done"} /\ result = NoResult

-----------------------------------------------------------------------------
(* Two generate_trace calls on two threads of one interpreter. Both use the
   generator of the random module, which is one object per interpreter; a
   thread can be preempted between any two calls into it, so running one
   whole loop iteration without preemption leaves out interleavings but adds
   none. *)

\* the read-only base parameter set of the sweep
SweepParams ==
    {p \in ValidParams : p.sets = 1 /\ p.ways = 1 /\ p.t_pagewalk = 3 /\ p.seed = 0}

\* the arguments of thread t's call: the base set with the thread's seed
ParamsOf(t) == [params EXCEPT !.seed = par[t].seed]

InitPar ==
    /\ cfg = [sets |-> 0, ways |-> 0, ways2 |-> 0]
    /\ tlb = NoTLB
    /\ wide = NoTLB
    /\ accessed = <<>>
    /\ outcome = <<>>
    /\ outcomeWide = <<>>
    /\ params \in SweepParams
    /\ pc = "idle"
    /\ rng \in 0..(RngMod - 1)
    /\ current = 0
    /\ refs = <<>>
    /\ i = 0
    /\ hits = 0
    /\ total_time = 0
    /\ result = NoResult
    /\ memo = NoMemo
    /\ par \in {[t \in Threads |->
                   [pc |-> "seed", seed |-> sd[t], current |-> 0, refs |-> <<>>]] :
                sd \in {f \in [Threads -> 0..MaxSeed] : f["a"] # f["b"]}}

\* thread t: random.seed(seed); refs = []; current = random.randrange(vpages)
ParSeed(t) ==
    /\ par[t].pc = "seed"
    /\ LET r0 == Reseed(rng, par[t].seed)
       IN  /\ rng' = RngNext(r0)
           /\ par' = [par EXCEPT ![t].pc = "gen",
                                 ![t].refs = <<>>,
                                 ![t].current = RandRange(r0, params.vpages)]
    /\ UNCHANGED <<params, pc, tlb, current, refs, i, hits, total_time, result, memo>>
    /\ UNCHANGED <<cfg, wide, accessed, outcome, outcomeWide>>

\* thread t: one iteration of the loop, drawing from the shared generator
ParStep(t) ==
    /\ par[t].pc = "gen"
    /\ ~TraceComplete(par[t].refs, params.n_accesses)
    /\ LET it == GenIteration(rng, par[t].current, ParamsOf(t))
       IN  /\ ~it.error
           /\ rng' = it.rng
           /\ par' = [par EXCEPT ![t].current = it.current,
                                 ![t].refs = Append(par[t].refs, it.ref)]
    /\ UNCHANGED <<params, pc, tlb, current, refs, i, hits, total_time, result, memo>>
    /\ UNCHANGED <<cfg, wide, accessed, outcome, outcomeWide>>

\* thread t: return refs
ParDone(t) ==
    /\ par[t].pc = "gen"
    /\ TraceComplete(par[t].refs, params.n_accesses)
    /\ par' = [par EXCEPT ![t].pc = "done"]
    /\ UNCHANGED <<params, pc, rng, tlb, current, refs, i, hits, total_time, result, memo>>
    /\ UNCHANGED <<cfg, wide, accessed, outcome, outcomeWide>>

NextPar ==
    \E t \in Threads :
        \/ ParSeed(t)
        \/ ParStep(t)
        \/ ParDone(t)

SpecPar == InitPar /\ [][NextPar]_vars

\* generate_trace run alone from generator state r and center c
RECURSIVE SoloLoop(_, _, _, _)
SoloLoop(r, c, trace, p) ==
    IF TraceComplete(trace, p.n_accesses)
    THEN trace
    ELSE LET it == GenIteration(r, c, p)
         IN  SoloLoop(it.rng, it.current, Append(trace, it.ref), p)

\* the trace generate_trace(**p) returns when nothing else draws meanwhile
SoloTrace(p) ==
    LET r0 == RngSeed(p.seed)
    IN  SoloLoop(RngNext(r0), RandRange(r0, p.vpages), <<>>, p)

\* C14 (independence of concurrent calls), as stated: whatever the
\* interleaving of two calls with different seeds, each returns exactly the
\* trace it returns when run alone.
C14_Independence ==
    \A t \in Threads :
        par[t].pc = "done" => par[t].refs = SoloTrace(ParamsOf(t))

====
